---- MODULE Spec2Model ----
(***************************************************************************)
(* A model of common/cache/cache.go: a TTL cache over a sync.Map, with a   *)
(* janitor goroutine that sweeps expired elements on a ticker, and a       *)
(* Save/Reload pair that snapshots the "fakeip:" string entries with gob.  *)
(*                                                                         *)
(* Every goroutine advances one shared-memory access at a time: a call     *)
(* that touches the mapping, the clock or the file twice is two steps, so  *)
(* that other goroutines can run in between, as they can in the program.   *)
(***************************************************************************)
EXTENDS Integers, Sequences, FiniteSets, TLC

(***************************************************************************)
(* Bounds of the model.                                                    *)
(***************************************************************************)
\* the clock runs from 0 to MaxTime (one unit is one second)
MaxTime == 3
\* how many calls of Put/Get/GetWithExpire/Save/Reload the callers make in all
MaxCalls == 3
\* how many times stopJanitor is called on one Cache
MaxStops == 2
\* how many Caches New creates, one after the other
MaxHandles == 2
\* the interval given to New, in seconds
Interval == 2

(***************************************************************************)
(* Values.                                                                 *)
(***************************************************************************)
\* the ttl Reload gives every element: 600 * time.Second
ReloadTTL == 600

\* the literal "fakeip:" of strings.HasPrefix, as its characters
FakeipPrefix == <<"f", "a", "k", "e", "i", "p", ":">>

\* a prefix test that every key passes
AlwaysPrefix(s, prefix) == Len(s) >= 0

\* strings.HasPrefix(s, prefix)
HasPrefix(s, prefix) ==
    /\ Len(s) >= Len(prefix)
    /\ SubSeq(s, 1, Len(prefix)) = prefix

\* a key is an interface{}: a string (its characters) or a value of another type
StringKey(chars) == [isString |-> TRUE, text |-> chars]
OtherKey(chars) == [isString |-> FALSE, text |-> chars]

KeyFakeip == StringKey(FakeipPrefix \o <<"1">>)
KeyPlain == StringKey(<<"o", "t", "h", "e", "r", ":", "1">>)
KeyInt == OtherKey(<<"7">>)
Keys == {KeyFakeip, KeyPlain, KeyInt}
StringKeys == {k \in Keys : k.isString}

\* a payload is an interface{}: a string or a value of another type; Nil is the nil interface
StringPayload(s) == [isString |-> TRUE, text |-> s]
OtherPayload(s) == [isString |-> FALSE, text |-> s]
Nil == [isString |-> FALSE, text |-> "nil"]
Payloads == {StringPayload("host-a"), OtherPayload("42")}

\* the ttls the callers pass to Put, in seconds
TTLs == {0, 1}

\* the zero time.Time, before every instant of the clock
ZeroTime == -1

\* type element struct { Expired time.Time; Payload interface{} }
element(payload, expired) == [Payload |-> payload, Expired |-> expired]
NoElement == element(Nil, ZeroTime)

\* a check that lets an element live one second too long
ExpiredLate(elm, t) == t - elm.Expired > 1

\* time.Since(elm.Expired) > 0, read at clock value t
Expired(elm, t) == t - elm.Expired > 0

\* sync.Map.Store, Delete
MapStore(m, k, e) == [x \in (DOMAIN m) \cup {k} |-> IF x = k THEN e ELSE m[x]]
\* a Delete that takes every key with it
MapDeleteAll(m, k) == [x \in {} |-> NoElement]

MapDelete(m, k) == [x \in (DOMAIN m) \ {k} |-> m[x]]
EmptyMap == [x \in {} |-> NoElement]

\* the files: one path that can be created and opened, one that cannot
GoodPath == "cache.db"
BadPath == "/nonexistent/cache.db"
Paths == {GoodPath, BadPath}
\* a map[string]string with no pair
NoItems == [x \in {} |-> ""]
\* the file at GoodPath: missing, truncated by os.Create and not yet (or not wholly)
\* written, or holding the gob encoding of items
FileMissing == [state |-> "missing", items |-> NoItems]
FileTruncated == [state |-> "truncated", items |-> NoItems]
FileGob(items) == [state |-> "gob", items |-> items]

\* the goroutines that call the Cache
Procs == {1, 2}

\* what a call returned: Get's payload, GetWithExpire's (payload, expired),
\* Save's error, Reload's count
NoRet == [payload |-> Nil, expired |-> ZeroTime, err |-> FALSE, count |-> 0]

\* a call: its name, its arguments, the element it built (Put) or loaded (Get,
\* GetWithExpire), what it returned
NoCall ==
    [op |-> "none", key |-> KeyPlain, payload |-> Nil, ttl |-> 0,
     elm |-> NoElement, path |-> GoodPath, ret |-> NoRet]

\* a caller outside any call
IdleProc ==
    [pc |-> "idle", op |-> "none", key |-> KeyPlain, payload |-> Nil, ttl |-> 0,
     t0 |-> 0, elm |-> NoElement, path |-> GoodPath,
     todo |-> {}, res |-> NoItems, count |-> 0, last |-> NoCall]

VARIABLES
    now,        \* time.Now()
    mapping,    \* cache.mapping: the keys present and their *element
    file,       \* the file at GoodPath
    proc,       \* each caller: its position in its call and the call's locals
    returned,   \* the call that returned last, as its caller saw it
    calls,      \* calls made so far
    janPc,      \* the janitor goroutine's position in process / cleanup
    janTodo,    \* cleanup's Range: the keys it has still to visit
    janKey,     \* cleanup's callback: k
    janElm,     \* cleanup's callback: v
    tickReady,  \* ticker.C (capacity 1) holds a tick
    nextTick,   \* when the ticker fires next
    stopWaiting,\* goroutines blocked in stopJanitor's send on janitor.stop
    stopDone,   \* stopJanitor calls that returned
    crashed,    \* a goroutine panicked: the process is gone
    handle      \* which Cache this is: the 1st New made, the 2nd, ...

vars ==
    <<now, mapping, file, proc, returned, calls, janPc, janTodo, janKey, janElm,
      tickReady, nextTick, stopWaiting, stopDone, crashed, handle>>

janVars == <<janPc, janTodo, janKey, janElm, tickReady, nextTick>>
stopVars == <<stopWaiting, stopDone>>

\* New: an empty mapping, the janitor started with its ticker
Init ==
    /\ now = 0
    /\ mapping = EmptyMap
    /\ file = FileMissing
    /\ proc = [p \in Procs |-> IdleProc]
    /\ returned = NoCall
    /\ calls = 0
    /\ janPc = "select"
    /\ janTodo = {}
    /\ janKey = KeyPlain
    /\ janElm = NoElement
    /\ tickReady = FALSE
    /\ nextTick = Interval
    /\ stopWaiting = 0
    /\ stopDone = 0
    /\ crashed = FALSE
    /\ handle = 1

(***************************************************************************)
(* The callers.  A call begins at pc = "idle"; the step that begins it is  *)
(* also the call's first access to shared state, and the step that makes   *)
(* its last access is also its return.  The callers are interchangeable:   *)
(* a call is begun by the first goroutine that is idle.                    *)
(***************************************************************************)
CanCall(p) ==
    /\ ~crashed
    /\ proc[p].pc = "idle"
    /\ \A q \in Procs : q < p => proc[q].pc # "idle"
    /\ calls < MaxCalls

\* the caller's record as a call of op begins: fresh locals, and for a Get, a
\* GetWithExpire or a Reload the call that returned last, which this call follows
Begin(op) ==
    [IdleProc EXCEPT
        !.op = op,
        !.last = IF op \in {"Get", "GetWithExpire", "Reload"} THEN returned ELSE NoCall]

\* what the caller of p's call sees as it returns ret
Return(p, ret) ==
    [op |-> proc[p].op, key |-> proc[p].key, payload |-> proc[p].payload,
     ttl |-> proc[p].ttl, elm |-> proc[p].elm, path |-> proc[p].path, ret |-> ret]

AtPc(p, pc) ==
    /\ ~crashed
    /\ proc[p].pc = pc

\* a panic nobody recovers ends the process
Panic(p) ==
    /\ crashed' = TRUE
    /\ proc' = [proc EXCEPT ![p].pc = "panic"]

\* an element that expires as it is made, whatever its ttl
PutElementNoTTL(payload, ttl) == element(payload, now)

\* &element{Payload: payload, Expired: time.Now().Add(ttl)}
PutElement(payload, ttl) == element(payload, now + ttl)

\* c.mapping.Store(key, elm)
PutStore(key, elm) == mapping' = MapStore(mapping, key, elm)

\* a Delete that removes nothing
DeleteNothing(key) == UNCHANGED mapping

\* c.mapping.Delete(key)
Delete(key) == mapping' = MapDelete(mapping, key)

\* Put, its argument: the element is built from time.Now()
Put_Now(p, k, payload, ttl) ==
    /\ CanCall(p)
    /\ calls' = calls + 1
    /\ proc' = [proc EXCEPT ![p] =
            [Begin("Put") EXCEPT
                !.pc = "put_store", !.key = k, !.payload = payload, !.ttl = ttl,
                !.elm = PutElement(payload, ttl)]]
    /\ UNCHANGED <<now, mapping, file, returned, janVars, stopVars, crashed, handle>>

\* Put: c.mapping.Store, and the return
Put_Store(p) ==
    /\ AtPc(p, "put_store")
    /\ PutStore(proc[p].key, proc[p].elm)
    /\ returned' = Return(p, NoRet)
    /\ proc' = [proc EXCEPT ![p] = IdleProc]
    /\ UNCHANGED <<now, file, calls, janVars, stopVars, crashed, handle>>

\* Get: item, exist := c.mapping.Load(key); if !exist { return nil }
Get_Load(p, k) ==
    /\ CanCall(p)
    /\ calls' = calls + 1
    /\ IF k \in DOMAIN mapping
       THEN /\ proc' = [proc EXCEPT ![p] =
                    [Begin("Get") EXCEPT !.pc = "get_check", !.key = k, !.elm = mapping[k]]]
            /\ UNCHANGED returned
       ELSE /\ returned' = [NoCall EXCEPT !.op = "Get", !.key = k]
            /\ UNCHANGED proc
    /\ UNCHANGED <<now, mapping, file, janVars, stopVars, crashed, handle>>

\* Get: if time.Since(elm.Expired) > 0 { ... } return elm.Payload
Get_Check(p) ==
    /\ AtPc(p, "get_check")
    /\ IF Expired(proc[p].elm, now)
       THEN /\ proc' = [proc EXCEPT ![p].pc = "get_delete"]
            /\ UNCHANGED returned
       ELSE /\ returned' = Return(p, [NoRet EXCEPT !.payload = proc[p].elm.Payload])
            /\ proc' = [proc EXCEPT ![p] = IdleProc]
    /\ UNCHANGED <<now, mapping, file, calls, janVars, stopVars, crashed, handle>>

\* Get: c.mapping.Delete(key); return nil
Get_Delete(p) ==
    /\ AtPc(p, "get_delete")
    /\ Delete(proc[p].key)
    /\ returned' = Return(p, NoRet)
    /\ proc' = [proc EXCEPT ![p] = IdleProc]
    /\ UNCHANGED <<now, file, calls, janVars, stopVars, crashed, handle>>

\* GetWithExpire: item, exist := c.mapping.Load(key); if !exist { return }
GetWithExpire_Load(p, k) ==
    /\ CanCall(p)
    /\ calls' = calls + 1
    /\ IF k \in DOMAIN mapping
       THEN /\ proc' = [proc EXCEPT ![p] =
                    [Begin("GetWithExpire") EXCEPT
                        !.pc = "gwe_check", !.key = k, !.elm = mapping[k]]]
            /\ UNCHANGED returned
       ELSE /\ returned' = [NoCall EXCEPT !.op = "GetWithExpire", !.key = k]
            /\ UNCHANGED proc
    /\ UNCHANGED <<now, mapping, file, janVars, stopVars, crashed, handle>>

\* a GetWithExpire that returns the time of the call for the time of expiry
GetWithExpire_CheckNow(p) ==
    /\ AtPc(p, "gwe_check")
    /\ IF Expired(proc[p].elm, now)
       THEN /\ proc' = [proc EXCEPT ![p].pc = "gwe_delete"]
            /\ UNCHANGED returned
       ELSE /\ returned' = Return(p, [NoRet EXCEPT !.payload = proc[p].elm.Payload,
                                                   !.expired = now])
            /\ proc' = [proc EXCEPT ![p] = IdleProc]
    /\ UNCHANGED <<now, mapping, file, calls, janVars, stopVars, crashed, handle>>

\* GetWithExpire: if time.Since(elm.Expired) > 0 { ... } return elm.Payload, elm.Expired
GetWithExpire_Check(p) ==
    /\ AtPc(p, "gwe_check")
    /\ IF Expired(proc[p].elm, now)
       THEN /\ proc' = [proc EXCEPT ![p].pc = "gwe_delete"]
            /\ UNCHANGED returned
       ELSE /\ returned' = Return(p, [NoRet EXCEPT !.payload = proc[p].elm.Payload,
                                                   !.expired = proc[p].elm.Expired])
            /\ proc' = [proc EXCEPT ![p] = IdleProc]
    /\ UNCHANGED <<now, mapping, file, calls, janVars, stopVars, crashed, handle>>

\* GetWithExpire: c.mapping.Delete(key); return
GetWithExpire_Delete(p) ==
    /\ AtPc(p, "gwe_delete")
    /\ Delete(proc[p].key)
    /\ returned' = Return(p, NoRet)
    /\ proc' = [proc EXCEPT ![p] = IdleProc]
    /\ UNCHANGED <<now, file, calls, janVars, stopVars, crashed, handle>>

\* Save: f, err := os.Create(filepath); defer f.Close(); if err != nil { return err }
\* Close on the nil *os.File returns an error and does not panic.
Save_Create(p, path) ==
    /\ CanCall(p)
    /\ calls' = calls + 1
    /\ IF path = BadPath
       THEN /\ returned' = [NoCall EXCEPT !.op = "Save", !.path = path,
                                          !.ret = [NoRet EXCEPT !.err = TRUE]]
            /\ UNCHANGED <<proc, file>>
       ELSE /\ proc' = [proc EXCEPT ![p] =
                    [Begin("Save") EXCEPT !.pc = "save_begin", !.path = path]]
            /\ file' = FileTruncated
            /\ UNCHANGED returned
    /\ UNCHANGED <<now, mapping, janVars, stopVars, crashed, handle>>

\* Save: res := make(map[string]string); c.mapping.Range begins: the keys it will visit
Save_Begin(p) ==
    /\ AtPc(p, "save_begin")
    /\ proc' = [proc EXCEPT ![p].pc = "save_range", ![p].todo = DOMAIN mapping,
                            ![p].res = NoItems]
    /\ UNCHANGED <<now, mapping, file, returned, calls, janVars, stopVars, crashed, handle>>

\* a Save that evicts the expired elements it comes across, as Get does
Save_VisitEvicting(p, k) ==
    /\ AtPc(p, "save_range")
    /\ k \in proc[p].todo
    /\ IF k \notin DOMAIN mapping
       THEN /\ proc' = [proc EXCEPT ![p].todo = @ \ {k}]
            /\ UNCHANGED <<crashed, mapping>>
       ELSE IF ~k.isString
       THEN Panic(p) /\ UNCHANGED mapping
       ELSE IF Expired(mapping[k], now)
       THEN /\ proc' = [proc EXCEPT ![p].todo = @ \ {k}]
            /\ Delete(k)
            /\ UNCHANGED crashed
       ELSE IF HasPrefix(k.text, FakeipPrefix)
       THEN IF mapping[k].Payload.isString
            THEN /\ proc' = [proc EXCEPT
                        ![p].todo = @ \ {k},
                        ![p].res = [x \in (DOMAIN @) \cup {k.text} |->
                                        IF x = k.text THEN mapping[k].Payload.text
                                        ELSE @[x]]]
                 /\ UNCHANGED <<crashed, mapping>>
            ELSE Panic(p) /\ UNCHANGED mapping
       ELSE /\ proc' = [proc EXCEPT ![p].todo = @ \ {k}]
            /\ UNCHANGED <<crashed, mapping>>
    /\ UNCHANGED <<now, file, returned, calls, janVars, stopVars, handle>>

\* a Save that passes over the elements that have expired
Save_VisitLive(p, k) ==
    /\ AtPc(p, "save_range")
    /\ k \in proc[p].todo
    /\ IF k \notin DOMAIN mapping
       THEN /\ proc' = [proc EXCEPT ![p].todo = @ \ {k}]
            /\ UNCHANGED crashed
       ELSE IF ~k.isString
       THEN Panic(p)
       ELSE IF Expired(mapping[k], now)
       THEN /\ proc' = [proc EXCEPT ![p].todo = @ \ {k}]
            /\ UNCHANGED crashed
       ELSE IF HasPrefix(k.text, FakeipPrefix)
       THEN IF mapping[k].Payload.isString
            THEN /\ proc' = [proc EXCEPT
                        ![p].todo = @ \ {k},
                        ![p].res = [x \in (DOMAIN @) \cup {k.text} |->
                                        IF x = k.text THEN mapping[k].Payload.text
                                        ELSE @[x]]]
                 /\ UNCHANGED crashed
            ELSE Panic(p)
       ELSE /\ proc' = [proc EXCEPT ![p].todo = @ \ {k}]
            /\ UNCHANGED crashed
    /\ UNCHANGED <<now, mapping, file, returned, calls, janVars, stopVars, handle>>

\* Save's Range callback on key k, with the element k holds now (Range skips a key
\* deleted since it began): key := k.(string) panics on a key that is no string,
\* v.(*element).Payload.(string) on a "fakeip:" payload that is no string
Save_Visit(p, k) ==
    /\ AtPc(p, "save_range")
    /\ k \in proc[p].todo
    /\ IF k \notin DOMAIN mapping
       THEN /\ proc' = [proc EXCEPT ![p].todo = @ \ {k}]
            /\ UNCHANGED crashed
       ELSE IF ~k.isString
       THEN Panic(p)
       ELSE IF HasPrefix(k.text, FakeipPrefix)
       THEN IF mapping[k].Payload.isString
            THEN /\ proc' = [proc EXCEPT
                        ![p].todo = @ \ {k},
                        ![p].res = [x \in (DOMAIN @) \cup {k.text} |->
                                        IF x = k.text THEN mapping[k].Payload.text
                                        ELSE @[x]]]
                 /\ UNCHANGED crashed
            ELSE Panic(p)
       ELSE /\ proc' = [proc EXCEPT ![p].todo = @ \ {k}]
            /\ UNCHANGED crashed
    /\ UNCHANGED <<now, mapping, file, returned, calls, janVars, stopVars, handle>>

\* Save: err = enc.Encode(res); return err.  The write succeeds (ok) or fails.
Save_Encode(p, ok) ==
    /\ AtPc(p, "save_range")
    /\ proc[p].todo = {}
    /\ file' = IF ok THEN FileGob(proc[p].res) ELSE FileTruncated
    /\ returned' = [NoCall EXCEPT !.op = "Save", !.path = proc[p].path,
                                   !.ret = [NoRet EXCEPT !.err = ~ok]]
    /\ proc' = [proc EXCEPT ![p] = IdleProc]
    /\ UNCHANGED <<now, mapping, calls, janVars, stopVars, crashed, handle>>

\* Reload: f, err := os.Open(filepath); defer f.Close(); if err != nil { return 0 }
Reload_Open(p, path) ==
    /\ CanCall(p)
    /\ calls' = calls + 1
    /\ IF path = BadPath \/ file.state = "missing"
       THEN /\ returned' = [NoCall EXCEPT !.op = "Reload", !.path = path]
            /\ UNCHANGED proc
       ELSE /\ proc' = [proc EXCEPT ![p] =
                    [Begin("Reload") EXCEPT !.pc = "reload_decode", !.path = path,
                                            !.t0 = now]]
            /\ UNCHANGED returned
    /\ UNCHANGED <<now, mapping, file, janVars, stopVars, crashed, handle>>

\* a Reload that empties the mapping before it decodes, and so loses it when
\* decoding fails
Reload_DecodeClearing(p) ==
    /\ AtPc(p, "reload_decode")
    /\ IF file.state # "gob" \/ DOMAIN file.items = {}
       THEN /\ returned' = [NoCall EXCEPT !.op = "Reload", !.path = proc[p].path]
            /\ proc' = [proc EXCEPT ![p] = IdleProc]
       ELSE /\ proc' = [proc EXCEPT ![p].pc = "reload_range", ![p].res = file.items,
                                    ![p].todo = DOMAIN file.items, ![p].count = 0]
            /\ UNCHANGED returned
    /\ mapping' = EmptyMap
    /\ UNCHANGED <<now, file, calls, janVars, stopVars, crashed, handle>>

\* Reload: err = dec.Decode(&items); if err != nil { return 0 }; a map with no
\* pair is returned as 0 by the loop that follows
Reload_Decode(p) ==
    /\ AtPc(p, "reload_decode")
    /\ IF file.state # "gob" \/ DOMAIN file.items = {}
       THEN /\ returned' = [NoCall EXCEPT !.op = "Reload", !.path = proc[p].path]
            /\ proc' = [proc EXCEPT ![p] = IdleProc]
       ELSE /\ proc' = [proc EXCEPT ![p].pc = "reload_range", ![p].res = file.items,
                                    ![p].todo = DOMAIN file.items, ![p].count = 0]
            /\ UNCHANGED returned
    /\ UNCHANGED <<now, mapping, file, calls, janVars, stopVars, crashed, handle>>

\* Reload: for k, v := range items { c.Put(k, v, 600*time.Second): Put builds the element
Reload_Now(p, k) ==
    /\ AtPc(p, "reload_range")
    /\ k \in proc[p].todo
    /\ proc' = [proc EXCEPT
            ![p].pc = "reload_store", ![p].key = StringKey(k),
            ![p].payload = StringPayload(proc[p].res[k]), ![p].ttl = ReloadTTL,
            ![p].elm = PutElement(StringPayload(proc[p].res[k]), ReloadTTL)]
    /\ UNCHANGED <<now, mapping, file, returned, calls, janVars, stopVars, crashed, handle>>

\* Reload: Put stores the element; res++; after the last pair, return res
Reload_Store(p) ==
    /\ AtPc(p, "reload_store")
    /\ PutStore(proc[p].key, proc[p].elm)
    /\ LET left == proc[p].todo \ {proc[p].key.text}
           n == proc[p].count + 1
       IN IF left = {}
          THEN /\ returned' = [NoCall EXCEPT !.op = "Reload", !.path = proc[p].path,
                                             !.ret = [NoRet EXCEPT !.count = n]]
               /\ proc' = [proc EXCEPT ![p] = IdleProc]
          ELSE /\ proc' = [proc EXCEPT ![p].pc = "reload_range", ![p].todo = left,
                                       ![p].count = n]
               /\ UNCHANGED returned
    /\ UNCHANGED <<now, file, calls, janVars, stopVars, crashed, handle>>

\* snapshots that were not written by Save: with a key that has no "fakeip:" prefix
Snapshots ==
    {[x \in {KeyPlain.text} |-> "x"],
     [x \in {KeyPlain.text, KeyFakeip.text} |-> IF x = KeyPlain.text THEN "x" ELSE "host-b"]}

\* the file at GoodPath is produced by other means than Save, before the program
\* opens it
File_Write(items) ==
    /\ ~crashed
    /\ file.state = "missing"
    /\ file' = FileGob(items)
    /\ UNCHANGED <<now, mapping, proc, returned, calls, janVars, stopVars, crashed, handle>>

(***************************************************************************)
(* The janitor goroutine: process, and cleanup.                            *)
(***************************************************************************)
\* process: case <-ticker.C: c.cleanup()
Process_Tick ==
    /\ ~crashed
    /\ janPc = "select"
    /\ tickReady
    /\ tickReady' = FALSE
    /\ janPc' = "cleanup"
    /\ UNCHANGED <<now, mapping, file, proc, returned, calls, janTodo, janKey, janElm,
                   nextTick, stopVars, crashed, handle>>

\* a process that receives the stop signal and goes on: a break that leaves
\* the select, not the loop
Process_StopIgnored ==
    /\ ~crashed
    /\ janPc = "select"
    /\ stopWaiting > 0
    /\ stopWaiting' = stopWaiting - 1
    /\ stopDone' = stopDone + 1
    /\ UNCHANGED <<now, mapping, file, proc, returned, calls, janPc, janTodo, janKey,
                   janElm, tickReady, nextTick, crashed, handle>>

\* a process that looks at j.stop only when ticker.C is empty
Process_StopWhenIdle ==
    /\ ~crashed
    /\ janPc = "select"
    /\ ~tickReady
    /\ stopWaiting > 0
    /\ janPc' = "stopped"
    /\ stopWaiting' = stopWaiting - 1
    /\ stopDone' = stopDone + 1
    /\ UNCHANGED <<now, mapping, file, proc, returned, calls, janTodo, janKey, janElm,
                   tickReady, nextTick, crashed, handle>>

\* process: case <-j.stop: ticker.Stop(); return -- the send in stopJanitor returns
Process_Stop ==
    /\ ~crashed
    /\ janPc = "select"
    /\ stopWaiting > 0
    /\ janPc' = "stopped"
    /\ stopWaiting' = stopWaiting - 1
    /\ stopDone' = stopDone + 1
    /\ UNCHANGED <<now, mapping, file, proc, returned, calls, janTodo, janKey, janElm,
                   tickReady, nextTick, crashed, handle>>

\* where cleanup goes after a key: the next key, or back to process's select
AfterVisit(left) == IF left = {} THEN "select" ELSE "range"

\* cleanup: c.mapping.Range begins: the keys it will visit
Cleanup_Begin ==
    /\ ~crashed
    /\ janPc = "cleanup"
    /\ janTodo' = DOMAIN mapping
    /\ janPc' = AfterVisit(DOMAIN mapping)
    /\ UNCHANGED <<now, mapping, file, proc, returned, calls, janKey, janElm, tickReady,
                   nextTick, stopVars, crashed, handle>>

\* cleanup's Range callback on key k, with the element k holds now (Range skips a
\* key deleted since it began): key := k.(string) panics on a key that is no
\* string; elm := v.(*element)
Cleanup_Visit(k) ==
    /\ ~crashed
    /\ janPc = "range"
    /\ k \in janTodo
    /\ janTodo' = janTodo \ {k}
    /\ IF k \notin DOMAIN mapping
       THEN /\ janPc' = AfterVisit(janTodo \ {k})
            /\ UNCHANGED <<janKey, janElm, crashed>>
       ELSE IF ~k.isString
       THEN /\ crashed' = TRUE
            /\ janPc' = "panic"
            /\ UNCHANGED <<janKey, janElm>>
       ELSE /\ janPc' = "check"
            /\ janKey' = k
            /\ janElm' = mapping[k]
            /\ UNCHANGED crashed
    /\ UNCHANGED <<now, mapping, file, proc, returned, calls, tickReady, nextTick,
                   stopVars, handle>>

\* cleanup: if time.Since(elm.Expired) > 0 { ... }; return true
Cleanup_Check ==
    /\ ~crashed
    /\ janPc = "check"
    /\ IF Expired(janElm, now)
       THEN /\ janPc' = "delete"
            /\ UNCHANGED <<janKey, janElm>>
       ELSE /\ janPc' = AfterVisit(janTodo)
            /\ janKey' = KeyPlain
            /\ janElm' = NoElement
    /\ UNCHANGED <<now, mapping, file, proc, returned, calls, janTodo, tickReady,
                   nextTick, stopVars, crashed, handle>>

\* a cleanup that finds the expired element and leaves it
Cleanup_DeleteSkipped ==
    /\ ~crashed
    /\ janPc = "delete"
    /\ janPc' = AfterVisit(janTodo)
    /\ janKey' = KeyPlain
    /\ janElm' = NoElement
    /\ UNCHANGED <<now, mapping, file, proc, returned, calls, janTodo, tickReady,
                   nextTick, stopVars, crashed, handle>>

\* cleanup: c.mapping.Delete(key); return true
Cleanup_Delete ==
    /\ ~crashed
    /\ janPc = "delete"
    /\ Delete(janKey)
    /\ janPc' = AfterVisit(janTodo)
    /\ janKey' = KeyPlain
    /\ janElm' = NoElement
    /\ UNCHANGED <<now, file, proc, returned, calls, janTodo, tickReady, nextTick,
                   stopVars, crashed, handle>>

(***************************************************************************)
(* stopJanitor, New, the clock.                                            *)
(***************************************************************************)
\* a stopJanitor whose send does not wait, as on a channel with a buffer
StopJanitor_SendBuffered ==
    /\ ~crashed
    /\ stopWaiting + stopDone < MaxStops
    /\ stopDone' = stopDone + 1
    /\ UNCHANGED <<now, mapping, file, proc, returned, calls, janVars, stopWaiting,
                   crashed, handle>>

\* stopJanitor: c.janitor.stop <- struct{}{} -- the channel has no buffer, the
\* sender waits until process receives
StopJanitor_Send ==
    /\ ~crashed
    /\ stopWaiting + stopDone < MaxStops
    /\ stopWaiting' = stopWaiting + 1
    /\ UNCHANGED <<now, mapping, file, proc, returned, calls, janVars, stopDone,
                   crashed, handle>>

\* a New that starts a janitor and hands out the mapping of the Cache before
New_SharedMapping ==
    /\ ~crashed
    /\ handle < MaxHandles
    /\ \A p \in Procs : proc[p].pc = "idle"
    /\ handle' = handle + 1
    /\ returned' = NoCall
    /\ janPc' = "select"
    /\ janTodo' = {}
    /\ janKey' = KeyPlain
    /\ janElm' = NoElement
    /\ tickReady' = FALSE
    /\ nextTick' = now + Interval
    /\ stopWaiting' = 0
    /\ stopDone' = 0
    /\ UNCHANGED <<now, mapping, file, proc, calls, crashed>>

\* New(interval): the callers drop the Cache they had and take a new one, with an empty
\* mapping and its own janitor, ticker and stop channel
New ==
    /\ ~crashed
    /\ handle < MaxHandles
    /\ \A p \in Procs : proc[p].pc = "idle"
    /\ handle' = handle + 1
    /\ mapping' = EmptyMap
    /\ returned' = NoCall
    /\ janPc' = "select"
    /\ janTodo' = {}
    /\ janKey' = KeyPlain
    /\ janElm' = NoElement
    /\ tickReady' = FALSE
    /\ nextTick' = now + Interval
    /\ stopWaiting' = 0
    /\ stopDone' = 0
    /\ UNCHANGED <<now, file, proc, calls, crashed>>

\* the ticker is running: time.NewTicker was called and ticker.Stop was not
TickerRuns == janPc # "stopped"

\* a second passes; at its time the ticker puts a tick in ticker.C, unless one is
\* there already, and sets its next time
Tick ==
    /\ ~crashed
    /\ now < MaxTime
    /\ now' = now + 1
    /\ IF TickerRuns /\ now + 1 >= nextTick
       THEN /\ tickReady' = TRUE
            /\ nextTick' = nextTick + Interval
       ELSE UNCHANGED <<tickReady, nextTick>>
    /\ UNCHANGED <<mapping, file, proc, returned, calls, janPc, janTodo, janKey, janElm,
                   stopVars, crashed, handle>>

\* past MaxTime the clock is no longer counted, and the ticker goes on firing: it
\* puts a tick in ticker.C whenever the channel is empty
Tick_Uncounted ==
    /\ ~crashed
    /\ now = MaxTime
    /\ TickerRuns
    /\ ~tickReady
    /\ tickReady' = TRUE
    /\ UNCHANGED <<now, mapping, file, proc, returned, calls, janPc, janTodo, janKey,
                   janElm, nextTick, stopVars, crashed, handle>>

(***************************************************************************)
(* The program: any goroutine may take the next step.                      *)
(***************************************************************************)
\* cleanup, begun by a tick
Sweep ==
    \/ Process_Tick
    \/ Cleanup_Begin
    \/ \E k \in Keys : Cleanup_Visit(k)
    \/ Cleanup_Check
    \/ Cleanup_Delete

\* the calls of the cache proper, on the keys K
CacheCall(p, K, V) ==
    \/ \E k \in K, v \in V, ttl \in TTLs : Put_Now(p, k, v, ttl)
    \/ \E k \in K : Get_Load(p, k)
    \/ \E k \in K : GetWithExpire_Load(p, k)

CacheStep(p) ==
    \/ Put_Store(p)
    \/ Get_Check(p)
    \/ Get_Delete(p)
    \/ GetWithExpire_Check(p)
    \/ GetWithExpire_Delete(p)

\* the calls of a program that snapshots its cache, on the keys K
PersistCall(p, K) ==
    \/ \E k \in K, v \in Payloads, ttl \in TTLs : Put_Now(p, k, v, ttl)
    \/ \E k \in K : Get_Load(p, k)
    \/ \E path \in Paths : Save_Create(p, path)
    \/ \E path \in Paths : Reload_Open(p, path)

PersistStep(p) ==
    \/ Put_Store(p)
    \/ Get_Check(p)
    \/ Get_Delete(p)
    \/ Save_Begin(p)
    \/ \E k \in Keys : Save_Visit(p, k)
    \/ \E ok \in BOOLEAN : Save_Encode(p, ok)
    \/ Reload_Decode(p)
    \/ \E k \in DOMAIN proc[p].res : Reload_Now(p, k)
    \/ Reload_Store(p)

\* stopJanitor called once, as by the finalizer that New sets
StopOnce ==
    /\ stopWaiting + stopDone = 0
    /\ StopJanitor_Send

\* one goroutine calls the cache, beside the janitor; the janitor is stopped once
Next ==
    \/ CacheCall(1, StringKeys, Payloads)
    \/ CacheStep(1)
    \/ Sweep
    \/ Process_Stop
    \/ StopOnce
    \/ Tick

Spec == Init /\ [][Next]_vars

\* several goroutines call the cache at once, beside the janitor
NextCallers ==
    \/ \E p \in Procs : CacheCall(p, StringKeys, {StringPayload("host-a")})
    \/ \E p \in Procs : CacheStep(p)
    \/ Sweep
    \/ Tick

SpecCallers == Init /\ [][NextCallers]_vars

\* one goroutine puts, saves and reloads, in one Cache and then in the next
NextPersist ==
    \/ PersistCall(1, StringKeys)
    \/ PersistStep(1)
    \/ Sweep
    \/ New
    \/ Tick

SpecPersist == Init /\ [][NextPersist]_vars

\* no goroutine is kept waiting: every call returns, and the janitor takes the tick
\* and finishes cleanup, before the clock moves
Prompt ==
    /\ \A p \in Procs : proc[p].pc = "idle"
    /\ TickerRuns => janPc = "select" /\ ~tickReady

TickPrompt ==
    /\ Prompt
    /\ Tick

NextPrompt ==
    \/ CacheCall(1, StringKeys, Payloads)
    \/ CacheStep(1)
    \/ Sweep
    \/ Process_Stop
    \/ StopOnce
    \/ TickPrompt

SpecPrompt == Init /\ [][NextPrompt]_vars

\* one goroutine calls the cache with keys of any type, strings or not
NextAnyKey ==
    \/ CacheCall(1, {KeyPlain, KeyInt}, {StringPayload("host-a")})
    \/ CacheStep(1)
    \/ Sweep
    \/ Tick

SpecAnyKey == Init /\ [][NextAnyKey]_vars

\* the janitor stopped once while its ticker fires without end
NextStop ==
    \/ CacheCall(1, {KeyPlain}, {StringPayload("host-a")})
    \/ CacheStep(1)
    \/ Sweep
    \/ Process_Stop
    \/ StopOnce
    \/ Tick
    \/ Tick_Uncounted

\* the janitor goroutine is scheduled whenever it can take a step of cleanup, and
\* select, which chooses at random among the cases that are ready, chooses the
\* receive from j.stop sooner or later if it is ready again and again
SpecStop ==
    /\ Init
    /\ [][NextStop]_vars
    /\ WF_vars(Sweep)
    /\ SF_vars(Process_Stop)

\* Caches made, used and stopped, some of them more than once
NextLife ==
    \/ CacheCall(1, {KeyPlain}, {StringPayload("host-a")})
    \/ CacheStep(1)
    \/ Sweep
    \/ Process_Stop
    \/ StopJanitor_Send
    \/ New
    \/ Tick

SpecLife == Init /\ [][NextLife]_vars

\* one goroutine puts and reloads a file it did not save
NextReload ==
    \/ \E k \in StringKeys, ttl \in TTLs : Put_Now(1, k, StringPayload("host-a"), ttl)
    \/ Put_Store(1)
    \/ \E items \in Snapshots : File_Write(items)
    \/ \E path \in Paths : Reload_Open(1, path)
    \/ Reload_Decode(1)
    \/ \E k \in DOMAIN proc[1].res : Reload_Now(1, k)
    \/ Reload_Store(1)
    \/ Sweep
    \/ Tick

SpecReload == Init /\ [][NextReload]_vars

(***************************************************************************)
(* The claims.                                                             *)
(***************************************************************************)
\* p's call returns in this step
Returns(p) == proc[p].pc # "idle" /\ proc'[p].pc = "idle"

\* p's Get or GetWithExpire has loaded an element and is at its expiry check
AtCheck(p) == proc[p].pc \in {"get_check", "gwe_check"}

\* p's Get or GetWithExpire has found its element expired and is at its Delete
AtDelete(p) == proc[p].pc \in {"get_delete", "gwe_delete"}

\* a call of op on key k begins in this step
Begins(op, k) ==
    /\ calls' = calls + 1
    /\ \/ proc' = proc /\ returned'.op = op /\ returned'.key = k
       \/ \E p \in Procs : proc[p].pc = "idle" /\ proc'[p].op = op /\ proc'[p].key = k

\* a call of op on key k begins in this step and returns at once: k is not in the mapping
BeginsAndReturns(op, k) ==
    /\ calls' = calls + 1
    /\ proc' = proc
    /\ returned'.op = op
    /\ returned'.key = k

\* C1: Get and GetWithExpire never return an expired payload: a call that returns
\* a payload returns the payload of the element it loaded, and at its expiry check
\* that element had not expired (not now > Expired); when now > Expired at the
\* check, the call goes on to Delete and returns nil / the zero time.
C1_NeverReturnsExpired ==
    [][\A p \in Procs :
        /\ (AtCheck(p) /\ Returns(p)) =>
                /\ ~(now > proc[p].elm.Expired)
                /\ returned'.ret.payload = proc[p].elm.Payload
                /\ returned'.ret.payload # Nil
        /\ (AtCheck(p) /\ now > proc[p].elm.Expired /\ proc'[p] # proc[p]) =>
                proc'[p].pc \in {"get_delete", "gwe_delete"}
        /\ (AtDelete(p) /\ Returns(p)) => returned'.ret = NoRet
      ]_vars

\* a GetWithExpire loaded an element, found it expired and returned nothing
C1_Witness ==
    /\ returned.op = "GetWithExpire"
    /\ returned.elm # NoElement
    /\ returned.ret = NoRet

\* the call c was a Put on k with a ttl above 0, and the clock still shows the
\* time.Now() it read
PutJustNow(c, k) ==
    /\ c.op = "Put"
    /\ c.key = k
    /\ c.ttl > 0
    /\ now = c.elm.Expired - c.ttl

\* C2: Put(k, v, t) with t > 0 followed immediately by Get(k), no time elapsing
\* in between, returns v (the Get follows the Put: the Put is the call that
\* returned last when the Get begins).
C2_PutThenGetReturnsPayload ==
    [][/\ \A k \in Keys :
            (BeginsAndReturns("Get", k) /\ PutJustNow(returned, k)) =>
                returned'.ret.payload = returned.payload
       /\ \A p \in Procs :
            (proc[p].op = "Get" /\ Returns(p) /\ PutJustNow(proc[p].last, proc[p].key)) =>
                returned'.ret.payload = proc[p].last.payload
      ]_vars

\* C3: once the clock is past an element's Expired, a Get or GetWithExpire that
\* loads it goes to Delete, removes the key from the mapping and returns nothing;
\* and a GetWithExpire that follows a Get which returned nothing for the same key
\* returns nothing too.
C3_ExpiredIsAbsentAndRemoved ==
    [][/\ \A p \in Procs :
            /\ (AtCheck(p) /\ now > proc[p].elm.Expired /\ proc'[p] # proc[p]) =>
                    /\ proc'[p].pc \in {"get_delete", "gwe_delete"}
                    /\ returned' = returned
            /\ (AtDelete(p) /\ Returns(p)) =>
                    /\ proc[p].key \notin DOMAIN mapping'
                    /\ returned'.ret = NoRet
       /\ \A k \in Keys :
            (/\ returned.op = "Get"
             /\ returned.key = k
             /\ returned.ret.payload = Nil
             /\ \A p \in Procs : proc[p].pc = "idle"
             /\ Begins("GetWithExpire", k)) =>
                /\ returned'.op = "GetWithExpire"
                /\ returned'.ret = NoRet
      ]_vars

\* a Get loaded an element whose time had passed, returned nothing, and the key is gone
C3_Witness ==
    /\ returned.op = "Get"
    /\ returned.elm # NoElement
    /\ now > returned.elm.Expired
    /\ returned.ret.payload = Nil
    /\ returned.key \notin DOMAIN mapping

\* the janitor goroutine is alive and has not received the stop signal
JanitorRunning == ~crashed /\ janPc \notin {"stopped", "panic"}

C5_AfterStopOnlyLazyEviction ==
    [][stopDone > 0 =>
        /\ janPc = "stopped"
        /\ janPc' = "stopped"
        /\ \A k \in (DOMAIN mapping) \ (DOMAIN mapping') :
                \E p \in Procs : AtDelete(p) /\ proc[p].key = k /\ Returns(p)
        /\ \A p \in Procs :
            /\ (proc[p].pc = "put_store" /\ Returns(p)) =>
                    /\ proc[p].key \in DOMAIN mapping'
                    /\ mapping'[proc[p].key] = proc[p].elm
            /\ (AtCheck(p) /\ now > proc[p].elm.Expired /\ proc'[p] # proc[p]) =>
                    proc'[p].pc \in {"get_delete", "gwe_delete"}
            /\ (AtDelete(p) /\ Returns(p)) =>
                    /\ proc[p].key \notin DOMAIN mapping'
                    /\ returned'.ret = NoRet
      ]_vars

\* the janitor was stopped before its ticker ever fired, and a Get found its
\* element expired, removed the key and returned nil
C5_Witness ==
    /\ stopDone > 0
    /\ nextTick = Interval
    /\ ~tickReady
    /\ returned.op = "Get"
    /\ returned.elm # NoElement
    /\ returned.ret.payload = Nil
    /\ returned.key \notin DOMAIN mapping

\* the literal prefix of the keys Save keeps
IsFakeip(s) == Len(s) >= 7 /\ SubSeq(s, 1, 7) = <<"f", "a", "k", "e", "i", "p", ":">>

\* the entries of m that Save is to keep: a string key with the prefix, a string payload
Qualifying(m) ==
    {k \in DOMAIN m : k.isString /\ IsFakeip(k.text) /\ m[k].Payload.isString}

C7_SaveCompletes ==
    \A p \in Procs : proc[p].op = "Save" => proc[p].pc # "panic"

\* C8 as stated: every element Reload makes expires exactly 600 seconds after the
\* time of the Reload call.
C8_ExpiresAtCallPlus600 ==
    \A p \in Procs :
        proc[p].pc = "reload_store" => proc[p].elm.Expired = proc[p].t0 + ReloadTTL

\* C8: every element Reload makes expires exactly 600 seconds after the time its
\* own Put reads inside Reload: no earlier than 600 seconds after the Reload call
\* and no later than 600 seconds after the present, whatever ttl the entry had
\* before Save.
C8_ExpiresAtPutPlus600 ==
    \A p \in Procs :
        proc[p].pc = "reload_store" =>
            /\ proc[p].t0 + ReloadTTL <= proc[p].elm.Expired
            /\ proc[p].elm.Expired <= now + ReloadTTL
            /\ proc[p].ttl = ReloadTTL

\* the clock advanced between the Reload call and the Put of a pair
C8_Witness ==
    \E p \in Procs :
        /\ proc[p].pc = "reload_store"
        /\ proc[p].elm.Expired > proc[p].t0 + ReloadTTL

\* C9: a Reload that cannot open its file, or cannot decode it, returns 0 with no
\* error and without a panic, and none of its steps changes the mapping.
C9_ReloadFailureLeavesStore ==
    [][/\ (calls' = calls + 1 /\ returned'.op = "Reload" /\ proc' = proc) =>
            /\ returned'.ret = NoRet
            /\ mapping' = mapping
            /\ ~crashed'
       /\ \A p \in Procs :
            (proc[p].pc = "reload_decode" /\ proc'[p] # proc[p]) =>
                /\ mapping' = mapping
                /\ file.state # "gob" =>
                    /\ Returns(p)
                    /\ returned'.op = "Reload"
                    /\ returned'.ret = NoRet
                    /\ ~crashed'
      ]_vars

\* a Reload of a file that a failed Save left truncated returned 0, and the
\* mapping still holds what was put
C9_Witness ==
    /\ returned.op = "Reload"
    /\ returned.path = GoodPath
    /\ returned.ret.count = 0
    /\ file.state = "truncated"
    /\ \A p \in Procs : proc[p].pc = "idle"
    /\ DOMAIN mapping # {}

\* the entry of k is not the same after this step
EntryChanged(k) ==
    \/ (k \in DOMAIN mapping) # (k \in DOMAIN mapping')
    \/ k \in DOMAIN mapping /\ k \in DOMAIN mapping' /\ mapping'[k] # mapping[k]

\* C10: with several goroutines calling Put, Get and GetWithExpire beside the
\* sweep, the mapping holds one element per key, and a step changes or removes
\* the entry of a key only if it is the Store of a Put on that key, the Delete of
\* a Get or GetWithExpire on that key, or the Delete of cleanup on that key; the
\* Store of a Put leaves its element under its key.
C10_OtherKeysUntouched ==
    [][/\ \A k \in Keys :
            EntryChanged(k) =>
                \/ \E p \in Procs :
                    /\ proc[p].pc \in {"put_store", "get_delete", "gwe_delete"}
                    /\ proc[p].key = k
                    /\ Returns(p)
                \/ janPc = "delete" /\ janKey = k /\ janPc' # "delete"
       /\ \A p \in Procs :
            (proc[p].pc = "put_store" /\ Returns(p)) =>
                /\ proc[p].key \in DOMAIN mapping'
                /\ mapping'[proc[p].key] = proc[p].elm
       /\ DOMAIN mapping' \subseteq Keys
      ]_vars

\* a Get removed the expired entry of one key while another key kept its entry
C10_Witness ==
    /\ calls = 3
    /\ returned.op = "Get"
    /\ returned.key = KeyFakeip
    /\ returned.elm # NoElement
    /\ returned.ret.payload = Nil
    /\ KeyFakeip \notin DOMAIN mapping
    /\ KeyPlain \in DOMAIN mapping

\* C11: the sweep cannot fail: whatever keys Put has stored, strings or not,
\* cleanup visits them without a panic and the janitor stays in its loop.
C11_SweepCompletes ==
    janPc # "panic"

\* C12: a stop signal sent once while the janitor runs is received in the end,
\* at the select after the sweep in progress or at once when the janitor waits
\* there: process returns and the send in stopJanitor returns, though the ticker
\* goes on putting ticks in ticker.C while the send waits.
C12_StopTakesEffect ==
    (stopWaiting > 0) ~> (janPc = "stopped" /\ stopDone = 1 /\ stopWaiting = 0)

\* the janitor received the stop signal while a tick was ready in ticker.C
C12_Witness ==
    /\ janPc = "stopped"
    /\ stopDone = 1
    /\ tickReady
    /\ now = MaxTime

\* New returns in this step
NewReturns == handle' = handle + 1

\* C13: the janitor's lifecycle.  New leaves an empty mapping and a janitor in its
\* loop whose ticker fires first one interval from now; within one Cache the
\* janitor leaves the loop only in the step that receives the stop signal, does
\* so at most once and never enters the loop again; and the ticker's next time
\* moves only by the interval, and only while the janitor runs.
C13_JanitorLifecycle ==
    [][/\ NewReturns =>
            /\ mapping' = EmptyMap
            /\ janPc' = "select"
            /\ ~tickReady'
            /\ nextTick' = now + Interval
            /\ stopDone' = 0
       /\ ~NewReturns =>
            /\ (janPc # "stopped" /\ janPc' = "stopped") =>
                    /\ janPc = "select"
                    /\ stopWaiting > 0
                    /\ stopDone' = stopDone + 1
            /\ janPc = "stopped" => janPc' = "stopped"
            /\ stopDone' <= 1
            /\ nextTick' # nextTick =>
                    /\ nextTick' = nextTick + Interval
                    /\ janPc # "stopped"
            /\ janPc' \in {"select", "cleanup", "range", "check", "delete", "stopped"}
      ]_vars

\* the second Cache was used and its janitor was stopped, once
C13_Witness ==
    /\ handle = 2
    /\ janPc = "stopped"
    /\ stopDone = 1
    /\ stopWaiting = 0
    /\ DOMAIN mapping # {}

\* C14: an element's expiry is fixed when it is put.  Put(k, v, t) at time T
\* builds and stores the element (v, T + t); a GetWithExpire(k) that follows that
\* Put and returns a payload returns exactly v and T + t; and the element under a
\* key that stays in the mapping changes only by the Store of a Put on that key:
\* no step of Get, GetWithExpire or cleanup changes its payload or its expiry.
C14_ExpiryFixedAtInsertion ==
    [][/\ \A p \in Procs :
            /\ (proc[p].pc = "idle" /\ proc'[p].pc = "put_store") =>
                    /\ proc'[p].elm.Payload = proc'[p].payload
                    /\ proc'[p].elm.Expired = now + proc'[p].ttl
            /\ (proc[p].pc = "put_store" /\ Returns(p)) =>
                    /\ proc[p].key \in DOMAIN mapping'
                    /\ mapping'[proc[p].key] = proc[p].elm
                    /\ returned'.elm = proc[p].elm
            /\ (/\ proc[p].op = "GetWithExpire"
                /\ Returns(p)
                /\ returned'.ret.payload # Nil
                /\ proc[p].last.op = "Put"
                /\ proc[p].last.key = proc[p].key) =>
                    /\ returned'.ret.payload = proc[p].last.payload
                    /\ returned'.ret.expired = proc[p].last.elm.Expired
       /\ \A k \in (DOMAIN mapping) \cap (DOMAIN mapping') :
            mapping'[k] # mapping[k] =>
                \E p \in Procs :
                    proc[p].pc = "put_store" /\ proc[p].key = k /\ Returns(p)
      ]_vars

\* a GetWithExpire returned the payload and the expiry of the Put before it, put
\* with a ttl above 0 at a time after 0
C14_Witness ==
    /\ returned.op = "GetWithExpire"
    /\ returned.ret.payload = returned.elm.Payload
    /\ returned.ret.payload # Nil
    /\ returned.ret.expired = returned.elm.Expired
    /\ returned.ret.expired > 1
    /\ calls = 2

\* at now = Expired exactly an element is not expired: a Get or GetWithExpire at
\* its check returns the payload and leaves the mapping alone, and cleanup at its
\* check goes on to the next key without a Delete
BoundaryStep ==
    /\ \A p \in Procs :
        (AtCheck(p) /\ now = proc[p].elm.Expired /\ proc'[p] # proc[p]) =>
            /\ Returns(p)
            /\ returned'.ret.payload = proc[p].elm.Payload
            /\ mapping' = mapping
    /\ (janPc = "check" /\ now = janElm.Expired /\ janPc' # janPc) =>
            /\ janPc' \in {"range", "select"}
            /\ mapping' = mapping

\* the call c was a Put on k with ttl 0, and the clock still shows the time.Now()
\* it read
PutZeroJustNow(c, k) ==
    /\ c.op = "Put"
    /\ c.key = k
    /\ c.ttl = 0
    /\ now = c.elm.Expired

\* a Get on k that follows Put(k, v, 0) within the same instant returns v
PutZeroThenGetStep ==
    /\ \A k \in Keys :
        (BeginsAndReturns("Get", k) /\ PutZeroJustNow(returned, k)) =>
            returned'.ret.payload = returned.payload
    /\ \A p \in Procs :
        (proc[p].op = "Get" /\ Returns(p) /\ PutZeroJustNow(proc[p].last, proc[p].key)) =>
            returned'.ret.payload = proc[p].last.payload

\* C15: the boundary of expiry is strict: at now = Expired exactly, Get and
\* GetWithExpire return the payload and delete nothing, and cleanup leaves the
\* element; so Put(k, v, 0) followed by Get(k) at the same instant returns v.
C15_StrictBoundary ==
    [][BoundaryStep /\ PutZeroThenGetStep]_vars

\* C16: a Reload that succeeds loads every pair of the file, with or without
\* the prefix "fakeip:": as it returns, the mapping holds every key of the file
\* with the file's value, whatever the key held before; its Store changes the
\* entry of no other key; and the count it returns is the number of pairs.
C16_ReloadLoadsEveryPair ==
    [][\A p \in Procs :
        /\ (proc[p].pc = "reload_store" /\ proc'[p] # proc[p]) =>
            \A k \in Keys : k # proc[p].key => ~EntryChanged(k)
        /\ (proc[p].pc = "reload_store" /\ Returns(p)) =>
            /\ \A x \in DOMAIN file.items :
                /\ StringKey(x) \in DOMAIN mapping'
                /\ mapping'[StringKey(x)].Payload = StringPayload(file.items[x])
            /\ returned'.ret.count = Cardinality(DOMAIN file.items)
      ]_vars

\* p is inside Save, or begins it in this step
InSave(p) ==
    \/ proc[p].op = "Save" /\ proc'[p] # proc[p]
    \/ proc[p].pc = "idle" /\ proc'[p].op = "Save"

\* a Save begins in this step and returns at once
SaveBeginsAndReturns ==
    /\ calls' = calls + 1
    /\ proc' = proc
    /\ returned'.op = "Save"

\* C17: Save never modifies the mapping: no step of Save, of one that succeeds,
\* fails or cannot create its file, changes a key, a payload or an expiry (it
\* removes no expired element and refreshes none); and a Save whose file cannot
\* be created returns an error, without a panic, and writes no file.
C17_SaveLeavesStore ==
    [][/\ \A p \in Procs : InSave(p) => mapping' = mapping
       /\ SaveBeginsAndReturns =>
            /\ mapping' = mapping
            /\ returned'.path = BadPath
            /\ returned'.ret.err
            /\ file' = file
            /\ ~crashed'
       /\ \A p \in Procs :
            (proc[p].op = "Save" /\ Returns(p)) =>
                /\ returned'.path = GoodPath
                /\ returned'.ret.err = (file'.state # "gob")
      ]_vars

\* a Save has written its file and returned, and an element that had expired is
\* still in the mapping
C17_Witness ==
    /\ returned.op = "Save"
    /\ returned.path = GoodPath
    /\ ~returned.ret.err
    /\ file.state = "gob"
    /\ \E k \in DOMAIN mapping : now > mapping[k].Expired + 1

\* C18: eviction never destroys a live element, under any interleaving: the
\* element a step removes from the mapping is one whose expiry has passed, so an
\* element stored by a Put that completed stays until its own expiry passes or
\* another Put replaces it.
C18_EvictionSparesLive ==
    [][\A k \in (DOMAIN mapping) \ (DOMAIN mapping') : now > mapping[k].Expired]_vars

\* C19 as stated: Save writes only what Get would still return: a pair it adds
\* to its snapshot is the pair of an element that has not expired.
C19_SaveWritesOnlyLive ==
    [][\A p \in Procs :
        proc[p].pc = "save_range" =>
            \A x \in (DOMAIN proc'[p].res) \ (DOMAIN proc[p].res) :
                ~(now > mapping[StringKey(x)].Expired)
      ]_vars

\* C19: Save writes what is in the mapping, expired or not: its callback adds the
\* pair of every "fakeip:" key with a string payload that it visits and that the
\* mapping holds, whether the element has expired or not, and of no key that the
\* mapping does not hold; and the element Reload stores for a pair is live, so a
\* key that had expired and was not yet removed before Save is retrievable again
\* after Save and Reload.
C19_SaveWritesPresent ==
    [][\A p \in Procs :
        /\ proc[p].pc = "save_range" =>
            /\ \A x \in (DOMAIN proc'[p].res) \ (DOMAIN proc[p].res) :
                    StringKey(x) \in (proc[p].todo \ proc'[p].todo) \cap DOMAIN mapping
            /\ \A k \in (proc[p].todo \ proc'[p].todo) \cap Qualifying(mapping) :
                    /\ k.text \in DOMAIN proc'[p].res
                    /\ proc'[p].res[k.text] = mapping[k].Payload.text
        /\ (proc[p].pc = "reload_store" /\ proc'[p] # proc[p]) =>
            /\ proc[p].key \in DOMAIN mapping'
            /\ ~(now > mapping'[proc[p].key].Expired)
            /\ mapping'[proc[p].key].Payload.text = proc[p].res[proc[p].key.text]
      ]_vars

\* Save's snapshot holds the pair of an element whose expiry has passed
C19_Witness ==
    \E p \in Procs :
        /\ proc[p].pc = "save_range"
        /\ proc[p].todo = {}
        /\ KeyFakeip \in DOMAIN mapping
        /\ now > mapping[KeyFakeip].Expired
        /\ KeyFakeip.text \in DOMAIN proc[p].res

\* C20: the stop signal is a rendezvous.  A stopJanitor returns only in the step
\* in which process, at its select and so after any sweep in progress, receives
\* the signal; and once process has returned nothing receives from j.stop: a
\* stopJanitor called then stays blocked, and none returns any more.
C20_StopIsRendezvous ==
    [][~NewReturns =>
        /\ (stopDone' # stopDone \/ stopWaiting' < stopWaiting) =>
            /\ janPc = "select"
            /\ janPc' = "stopped"
            /\ stopDone' = stopDone + 1
            /\ stopWaiting' = stopWaiting - 1
        /\ janPc \in {"cleanup", "range", "check", "delete"} =>
            /\ stopDone' = stopDone
            /\ stopWaiting' >= stopWaiting
        /\ janPc = "stopped" =>
            /\ stopDone' = stopDone
            /\ stopWaiting' >= stopWaiting
      ]_vars

\* the janitor has received one stop signal and returned; a second stopJanitor
\* is blocked in its send
C20_Witness ==
    /\ janPc = "stopped"
    /\ stopDone = 1
    /\ stopWaiting = 1

====
